---- MODULE Spec2Model ----
(***************************************************************************)
(* A model of tsuniqid: the 64-bit identifier generator of uniqid.go.      *)
(*                                                                         *)
(* Go's uint64 values do not fit TLC's integers, so a uint64 is modelled   *)
(* as four 16-bit limbs <<w0, w1, w2, w3>>, w0 the least significant, of   *)
(* value w0 + 2^16 w1 + 2^32 w2 + 2^48 w3.  Shifts, masks and ORs are      *)
(* computed bit by bit, as the machine computes them; additions carry.     *)
(***************************************************************************)
EXTENDS Integers, Sequences, FiniteSets, TLC

(***************************************************************************)
(* uint64 arithmetic                                                       *)
(***************************************************************************)
\* The width of Go's uint64.
WordBits == 64

\* The width of a limb: a uint64 is the sequence of its four limbs, the
\* least significant first.
LimbBits == WordBits \div 4

Pow2(k) == 2 ^ k

Limbs == 1..(WordBits \div LimbBits)

\* The largest limb.
LimbMax == Pow2(LimbBits) - 1

\* The uint64 whose value is the natural number n (n < 2^31).
U64(n) == << n % Pow2(LimbBits), n \div Pow2(LimbBits), 0, 0 >>

Zero64 == U64(0)

\* p & q and p | q of two limbs, bit by bit (n bits are left to do); a limb
\* that is all zeros or all ones decides the result at once.
RECURSIVE AndBits(_, _, _)
AndBits(p, q, n) ==
    IF n = 0 \/ p = 0 \/ q = 0 THEN 0
    ELSE ((p % 2) * (q % 2)) + 2 * AndBits(p \div 2, q \div 2, n - 1)

RECURSIVE OrBits(_, _, _)
OrBits(p, q, n) ==
    IF n = 0 THEN 0
    ELSE IF p = 0 THEN q
    ELSE IF q = 0 THEN p
    ELSE (IF (p % 2) + (q % 2) > 0 THEN 1 ELSE 0) + 2 * OrBits(p \div 2, q \div 2, n - 1)

\* Limb k of x, and zero outside the word.
LimbAt(x, k) == IF k \in Limbs THEN x[k] ELSE 0

\* The operators below bind their operands (x \in {a}) before they use them,
\* so that an operand is computed once and not once for every limb read.

\* a & b
And(a, b) ==
    CHOOSE r \in {[k \in Limbs |-> AndBits(x[k], y[k], LimbBits)] :
                    x \in {a}, y \in {b}} : TRUE

\* a | b
Or(a, b) ==
    CHOOSE r \in {[k \in Limbs |-> OrBits(x[k], y[k], LimbBits)] :
                    x \in {a}, y \in {b}} : TRUE

\* a << n: the bits shifted out at the top are lost.  Limb k of the result
\* takes the low bits of limb k - n/16 and the high bits of the limb below it.
Shl(a, n) ==
    CHOOSE r \in {[k \in Limbs |->
                     ((LimbAt(x, k - q) % Pow2(LimbBits - s)) * Pow2(s))
                        + (LimbAt(x, k - q - 1) \div Pow2(LimbBits - s))] :
                    x \in {a}, q \in {n \div LimbBits}, s \in {n % LimbBits}} : TRUE

\* a >> n (logical).
Shr(a, n) ==
    CHOOSE r \in {[k \in Limbs |->
                     (LimbAt(x, k + q) \div Pow2(s))
                        + ((LimbAt(x, k + q + 1) % Pow2(s)) * Pow2(LimbBits - s))] :
                    x \in {a}, q \in {n \div LimbBits}, s \in {n % LimbBits}} : TRUE

\* The carry out of limbs 1..k-1 of x + y + c0.
RECURSIVE CarryInto(_, _, _, _)
CarryInto(x, y, c0, k) ==
    IF k = 1 THEN c0
    ELSE (x[k - 1] + y[k - 1] + CarryInto(x, y, c0, k - 1)) \div Pow2(LimbBits)

\* a + b modulo 2^64: limb by limb, with carry.
Add(a, b) ==
    CHOOSE r \in {[k \in Limbs |-> (x[k] + y[k] + CarryInto(x, y, 0, k)) % Pow2(LimbBits)] :
                    x \in {a}, y \in {b}} : TRUE

\* ^a
Not(a) == CHOOSE r \in {[k \in Limbs |-> LimbMax - x[k]] : x \in {a}} : TRUE

\* a - b modulo 2^64 (two's complement).
Sub(a, b) == Add(Add(a, Not(b)), U64(1))

\* a < b as unsigned numbers: decided at the highest limb where they differ.
Less(a, b) ==
    \E x \in {a}, y \in {b} :
        \E k \in Limbs : /\ x[k] < y[k]
                         /\ \A j \in Limbs : j > k => x[j] = y[j]

\* The n-bit mask 2^n - 1.
Ones(n) ==
    [k \in Limbs |->
        IF LimbBits * k <= n THEN LimbMax
        ELSE IF LimbBits * (k - 1) >= n THEN 0
        ELSE Pow2(n - LimbBits * (k - 1)) - 1]

\* The value of x as a natural number, for x < 2^31.
ToNat(x) == x[1] + Pow2(LimbBits) * x[2]

\* 10 * a + d modulo 2^64.
Times10Plus(a, d) ==
    CHOOSE r \in {Add(Add(x8, x2), U64(d)) :
                    x8 \in {Add(Add(Add(a, a), Add(a, a)), Add(Add(a, a), Add(a, a)))},
                    x2 \in {Add(a, a)}} : TRUE

\* The uint64 written in decimal digits, most significant first.
RECURSIVE FromDecimal(_)
FromDecimal(ds) ==
    IF ds = <<>> THEN Zero64
    ELSE Times10Plus(FromDecimal(SubSeq(ds, 1, Len(ds) - 1)), ds[Len(ds)])

(***************************************************************************)
(* The constants of uniqid.go                                              *)
(***************************************************************************)
MaxMachineID == 15

MaxInstanceID == 15

MaxCounter == 16383

\* 0x3ffffffffff: the low 42 bits.
MaxTimestamp == Ones(42)

RandomSuffixLength == 8

CharSet ==
    << "0", "1", "2", "3", "4", "5", "6", "7", "8", "9",
       "a", "b", "c", "d", "e", "f", "g", "h", "i", "j", "k", "l", "m",
       "n", "o", "p", "q", "r", "s", "t", "u", "v", "w", "x", "y", "z" >>

TimestampShift == 14

InstanceIDShift == 56

MachineIDShift == 60

(***************************************************************************)
(* GenerateUint64ID's packing expression, and strconv's base-16 text       *)
(***************************************************************************)
\* The timestamp is not masked before it is shifted.
PackID_TimestampUnmasked(machineID, instanceID, timestamp, counter) ==
    Or(Or(Shl(machineID, MachineIDShift), Shl(instanceID, InstanceIDShift)),
       Or(Shl(timestamp, TimestampShift), And(counter, U64(MaxCounter))))

\* The counter is not masked.
PackID_CounterUnmasked(machineID, instanceID, timestamp, counter) ==
    Or(Or(Shl(machineID, MachineIDShift), Shl(instanceID, InstanceIDShift)),
       Or(Shl(And(timestamp, MaxTimestamp), TimestampShift), counter))

\* The timestamp is shifted by the width of the counter less one.
PackID_TimestampShiftedShort(machineID, instanceID, timestamp, counter) ==
    Or(Or(Shl(machineID, MachineIDShift), Shl(instanceID, InstanceIDShift)),
       Or(Shl(And(timestamp, MaxTimestamp), TimestampShift - 1),
          And(counter, U64(MaxCounter))))

\* The layout without the instance field.
PackID_NoInstance(machineID, instanceID, timestamp, counter) ==
    Or(Shl(machineID, MachineIDShift),
       Or(Shl(And(timestamp, MaxTimestamp), TimestampShift),
          And(counter, U64(MaxCounter))))

\* (machineID << 60) | (instanceID << 56) | ((timestamp & MaxTimestamp) << 14)
\*                   | (counter & MaxCounter)
PackID(machineID, instanceID, timestamp, counter) ==
    Or(Or(Shl(machineID, MachineIDShift), Shl(instanceID, InstanceIDShift)),
       Or(Shl(And(timestamp, MaxTimestamp), TimestampShift),
          And(counter, U64(MaxCounter))))

\* The value 0..15 of hexadecimal digit k of x (digit 0 is the lowest).
Nibble(x, k) == (x[(k \div 4) + 1] \div Pow2(4 * (k % 4))) % 16

\* The number of hexadecimal digits strconv.FormatUint(x, 16) writes: no
\* leading zeros, and "0" for zero.
HexLen(a) ==
    CHOOSE n \in {IF used = {} THEN 1 ELSE 1 + CHOOSE k \in used : \A j \in used : j <= k :
                    used \in {{k \in 0..15 : Nibble(a, k) # 0}}} : TRUE

\* The digits strconv writes in base 16.
HexDigits ==
    << "0", "1", "2", "3", "4", "5", "6", "7", "8", "9", "a", "b", "c", "d", "e", "f" >>

\* The number padded with zeros to 16 digits, as fmt's %016x writes it.
FormatUint16_Padded(a) == [p \in 1..16 |-> HexDigits[Nibble(a, 16 - p) + 1]]

\* strconv.FormatUint(x, 16): lowercase digits, most significant first.
FormatUint16(a) ==
    CHOOSE r \in {[p \in 1..n |-> HexDigits[Nibble(x, n - p) + 1]] :
                    x \in {a}, n \in {HexLen(a)}} : TRUE

\* fmt.Sprintf("%s%s", hex, suffix)
Sprintf2(hex, suffix) == hex \o suffix

\* The value of a character as a base-16 digit, or -1 when it is none.
HexDigitValue(ch) ==
    IF \E v \in 1..16 : HexDigits[v] = ch
    THEN (CHOOSE v \in 1..16 : HexDigits[v] = ch) - 1
    ELSE -1

\* strconv.ParseUint(s, 16, 64) for 1..16 digits: the value, or "error".
ParseUint16(s) ==
    IF Len(s) = 0 \/ Len(s) > 16 \/ \E p \in 1..Len(s) : HexDigitValue(s[p]) < 0
    THEN "error"
    ELSE [k \in Limbs |->
            LET D(j) == IF j >= Len(s) THEN 0 ELSE HexDigitValue(s[Len(s) - j])
                j0 == 4 * (k - 1)
            IN  D(j0) + 16 * D(j0 + 1) + 256 * D(j0 + 2) + 4096 * D(j0 + 3)]

(***************************************************************************)
(* Bounds of the model                                                     *)
(***************************************************************************)
\* Goroutines that call the package.
NumThreads == 2

\* Generation calls (GenerateUint64ID, GenerateStringID) started one by one.
MaxCalls == 2

\* NewGenerator calls made one by one, after the default generator's.
MaxNew == 2

\* Loops that create generators and drop them.
MaxCreateLoops == 1

\* Generators the program keeps a reference to, the default one included.
MaxLive == 2

\* Loops of discarded GenerateUint64ID calls.
MaxLoops == 1

\* Changes of the wall clock.
MaxClockMoves == 1

Threads == 1..NumThreads

(***************************************************************************)
(* The environment: host name, local address, hash, random sources         *)
(***************************************************************************)
\* Strings are sequences of one-character strings.
WebFive == <<"w", "e", "b", "-", "5">>
WebNine == <<"w", "e", "b", "-", "9">>
TenNet == <<"1", "0", ".", "0", ".", "0", ".", "5">>

\* What os.Hostname() may return on a host: a name, an empty name, an error.
Hostnames ==
    { [name |-> WebFive, err |-> FALSE], [name |-> WebNine, err |-> FALSE],
      [name |-> <<>>, err |-> FALSE], [name |-> <<>>, err |-> TRUE] }

\* What getLocalIP() may return on a host: an address (ip is the text
\* localIP.String() gives), or an error.
LocalIPs == { [ip |-> TenNet, err |-> FALSE], [ip |-> <<>>, err |-> TRUE] }

\* Seeds generateFallbackString's rand.NewSource may get from
\* time.Now().UnixNano().
FallbackSeeds == {3, 4}

\* The outputs of rng.Intn(36) after seeding: a function of the seed and of
\* the number of draws made.  The source is pseudo-random and nothing keeps
\* a stretch of 8 draws from coming again: seed 1 stands for a stretch of the
\* stream in which the suffixes differ, seed 2 for one in which 8 draws are
\* followed by the same 8.  Seeds 3 and 4 are those of the fallback strings.
IntnStream(seed) ==
    CASE seed = 1 ->
           << 10, 3, 35, 0, 17, 8, 29, 21, 4, 30, 11, 1, 26, 15, 33, 7, 2, 19, 24, 12, 5, 31, 9, 20 >>
      [] seed = 2 -> << 13, 0, 35, 22, 6, 6, 18, 9 >>
      [] seed = 3 -> << 8, 4, 16, 7, 31, 28, 30, 24, 13, 6 >>
      [] seed = 4 -> << 32, 12, 19, 18, 31, 32, 25, 2, 30, 15 >>

\* generateFallbackString(length), its rng seeded with seed: length draws
\* from CharSet.
generateFallbackString(length, seed) ==
    [i \in 1..length |-> CharSet[IntnStream(seed)[i] + 1]]

\* Strings generateFallbackString(10) may return.
FallbackStrings == {generateFallbackString(10, seed) : seed \in FallbackSeeds}

\* hashToUint64(input): the last 8 bytes of the SHA-1 digest of input,
\* big-endian.  The entries are the digests of the strings named.
hashToUint64(input) ==
    CASE input = <<"w", "e", "b", "-", "5", "1", "0", ".", "0", ".", "0", ".", "5">>
           -> <<42307, 48876, 19913, 890>>  \* 037a4dc9beeca543
      [] input = <<"w", "e", "b", "-", "5", "8", "4", "g", "7", "v", "s", "u", "o", "d", "6">>
           -> <<57589, 44858, 20481, 15069>>  \* 3add5001af3ae0f5
      [] input = <<"w", "e", "b", "-", "5", "w", "c", "j", "i", "v", "w", "p", "2", "u", "f">>
           -> <<23292, 64867, 25096, 12483>>  \* 30c36208fd635afc
      [] input = <<"w", "e", "b", "-", "9", "1", "0", ".", "0", ".", "0", ".", "5">>
           -> <<60096, 59134, 908, 47072>>  \* b7e0038ce6feeac0
      [] input = <<"w", "e", "b", "-", "9", "8", "4", "g", "7", "v", "s", "u", "o", "d", "6">>
           -> <<52448, 53222, 35580, 45179>>  \* b07b8afccfe6cce0
      [] input = <<"w", "e", "b", "-", "9", "w", "c", "j", "i", "v", "w", "p", "2", "u", "f">>
           -> <<41078, 41191, 54641, 55390>>  \* d85ed571a0e7a076
      [] input = <<"8", "4", "g", "7", "v", "s", "u", "o", "d", "6", "1", "0", ".", "0", ".", "0", ".", "5">>
           -> <<16234, 54693, 15563, 9721>>  \* 25f93ccbd5a53f6a
      [] input = <<"8", "4", "g", "7", "v", "s", "u", "o", "d", "6", "8", "4", "g", "7", "v", "s", "u", "o", "d", "6">>
           -> <<26325, 34187, 21311, 60487>>  \* ec47533f858b66d5
      [] input = <<"8", "4", "g", "7", "v", "s", "u", "o", "d", "6", "w", "c", "j", "i", "v", "w", "p", "2", "u", "f">>
           -> <<51430, 45517, 13815, 59525>>  \* e88535f7b1cdc8e6
      [] input = <<"w", "c", "j", "i", "v", "w", "p", "2", "u", "f", "1", "0", ".", "0", ".", "0", ".", "5">>
           -> <<63376, 36139, 28327, 43216>>  \* a8d06ea78d2bf790
      [] input = <<"w", "c", "j", "i", "v", "w", "p", "2", "u", "f", "8", "4", "g", "7", "v", "s", "u", "o", "d", "6">>
           -> <<65088, 59262, 54204, 26866>>  \* 68f2d3bce77efe40
      [] input = <<"w", "c", "j", "i", "v", "w", "p", "2", "u", "f", "w", "c", "j", "i", "v", "w", "p", "2", "u", "f">>
           -> <<38592, 63364, 22099, 10655>>  \* 299f5653f78496c0

\* The strings generateMachineID() may hash in environment e: the host name
\* and the address where the lookup succeeds (the name being non-empty), a
\* fallback string where not.
HostnameUsed(e) ==
    IF e.hostname.err \/ e.hostname.name = <<>> THEN FallbackStrings
    ELSE {e.hostname.name}

IPStrUsed(e) == IF e.localIP.err THEN FallbackStrings ELSE {e.localIP.ip}

\* Every fallback string stands for the successful lookup.
generateMachineID_AlwaysFallback(e) ==
    {hashToUint64(hn \o ip) : hn \in FallbackStrings, ip \in FallbackStrings}

\* The values generateMachineID() may return in environment e.
generateMachineID(e) ==
    {hashToUint64(hn \o ip) : hn \in HostnameUsed(e), ip \in IPStrUsed(e)}

\* Seeds NewGenerator's rand.NewSource may get from time.Now().UnixNano().
Seeds == {1, 2}

\* rng.Intn(n) in state r of the generator, and the state after the draw.
Intn(r) == IntnStream(r.seed)[(r.pos % Len(IntnStream(r.seed))) + 1]

AfterDraw(r) == [r EXCEPT !.pos = r.pos + 1]

\* The wall clock when the model starts: 1700000000000 ms since the epoch.
T0 == FromDecimal(<<1, 7, 0, 0, 0, 0, 0, 0, 0, 0, 0, 0, 0>>)

\* Readings the clock may be set to: one millisecond back, and 2^42 ms ahead.
ClockSamples == {Sub(T0, U64(1)), Add(T0, Shl(U64(1), 42))}

(***************************************************************************)
(* getLocalIP and extractIPFromAddr                                        *)
(***************************************************************************)
\* Interfaces a host lists, and addresses an interface lists, at most.
MaxInterfaces == 2
MaxAddrs == 2

\* A net.IP is a byte slice, or nil.
NilIP == [isNil |-> TRUE, bytes |-> <<>>]
IP(bytes) == [isNil |-> FALSE, bytes |-> bytes]

\* 10.0.0.5 and 192.168.1.7 in the 4-byte form, 127.0.0.1, fe80::1, and
\* 10.0.0.5 in the 16-byte form ::ffff:10.0.0.5.
TenNetIP == IP(<<10, 0, 0, 5>>)
HomeNetIP == IP(<<192, 168, 1, 7>>)
LoopbackIP == IP(<<127, 0, 0, 1>>)
LinkLocalIP6 == IP(<<254, 128, 0, 0, 0, 0, 0, 0, 0, 0, 0, 0, 0, 0, 0, 1>>)
TenNetIP16 == IP(<<0, 0, 0, 0, 0, 0, 0, 0, 0, 0, 255, 255, 10, 0, 0, 5>>)

\* net.IPv6loopback, ::1.
IPv6loopback == IP(<<0, 0, 0, 0, 0, 0, 0, 0, 0, 0, 0, 0, 0, 0, 0, 1>>)

\* ip.To4(): the 4-byte form of an IPv4 address, nil for any other value.
To4(ip) ==
    IF Len(ip.bytes) = 4 THEN ip
    ELSE IF /\ Len(ip.bytes) = 16
            /\ \A k \in 1..10 : ip.bytes[k] = 0
            /\ ip.bytes[11] = 255
            /\ ip.bytes[12] = 255
         THEN IP(SubSeq(ip.bytes, 13, 16))
         ELSE NilIP

\* ip.IsLoopback(): 127.0.0.0/8 for an IPv4 address, ::1 otherwise.
IsLoopback(ip) ==
    IF ~To4(ip).isNil THEN To4(ip).bytes[1] = 127
    ELSE ip.bytes = IPv6loopback.bytes

\* strconv.Itoa(n), as characters.
RECURSIVE Itoa(_)
Itoa(n) ==
    IF n < 10 THEN <<HexDigits[n + 1]>>
    ELSE Itoa(n \div 10) \o <<HexDigits[(n % 10) + 1]>>

\* ip.String() of an address in the 4-byte form: dotted decimal.
IPString(ip) ==
    Itoa(ip.bytes[1]) \o <<".">> \o Itoa(ip.bytes[2]) \o <<".">>
        \o Itoa(ip.bytes[3]) \o <<".">> \o Itoa(ip.bytes[4])

\* The type of the address is not looked at.
extractIPFromAddr_AnyType(addr) ==
    LET ip == addr.ip
    IN  IF ip.isNil \/ IsLoopback(ip) THEN NilIP
        ELSE To4(ip)

\* extractIPFromAddr(addr): the IP of a *net.IPNet or *net.IPAddr, nil for
\* any other type; nil when the IP is nil or loopback; else its To4().
extractIPFromAddr(addr) ==
    IF addr.type \notin {"IPNet", "IPAddr"} THEN NilIP
    ELSE LET ip == addr.ip
         IN  IF ip.isNil \/ IsLoopback(ip) THEN NilIP
             ELSE To4(ip)

\* The inner loop of getLocalIP from address j on: the first non-nil result
\* of extractIPFromAddr, nil when there is none.
RECURSIVE FirstIP(_, _)
FirstIP(addresses, j) ==
    IF j > Len(addresses) THEN NilIP
    ELSE LET ip == extractIPFromAddr(addresses[j])
         IN  IF ~ip.isNil THEN ip ELSE FirstIP(addresses, j + 1)

\* An interface whose addresses cannot be listed ends the search.
RECURSIVE ScanInterfaces_AddrsErrorFatal(_, _)
ScanInterfaces_AddrsErrorFatal(interfaces, i) ==
    IF i > Len(interfaces) THEN [ip |-> NilIP, err |-> TRUE]
    ELSE LET iface == interfaces[i]
         IN  IF ~iface.up THEN ScanInterfaces_AddrsErrorFatal(interfaces, i + 1)
             ELSE IF iface.loopback
                  THEN ScanInterfaces_AddrsErrorFatal(interfaces, i + 1)
             ELSE IF iface.addrsErr THEN [ip |-> NilIP, err |-> TRUE]
             ELSE LET ip == FirstIP(iface.addrs, 1)
                  IN  IF ~ip.isNil THEN [ip |-> ip, err |-> FALSE]
                      ELSE ScanInterfaces_AddrsErrorFatal(interfaces, i + 1)

\* The outer loop of getLocalIP from interface i on, and the return after
\* it.
RECURSIVE ScanInterfaces(_, _)
ScanInterfaces(interfaces, i) ==
    IF i > Len(interfaces) THEN [ip |-> NilIP, err |-> TRUE]
    ELSE LET iface == interfaces[i]
         IN  IF ~iface.up THEN ScanInterfaces(interfaces, i + 1)
             ELSE IF iface.loopback THEN ScanInterfaces(interfaces, i + 1)
             ELSE IF iface.addrsErr THEN ScanInterfaces(interfaces, i + 1)
             ELSE LET ip == FirstIP(iface.addrs, 1)
                  IN  IF ~ip.isNil THEN [ip |-> ip, err |-> FALSE]
                      ELSE ScanInterfaces(interfaces, i + 1)

\* getLocalIP() on a host: net.Interfaces() fails, or the interfaces are
\* searched.
getLocalIP(host) ==
    IF host.err THEN [ip |-> NilIP, err |-> TRUE]
    ELSE ScanInterfaces(host.interfaces, 1)

\* Addresses iface.Addrs() may list: *net.IPNet and *net.IPAddr values.
Addrs ==
    { [type |-> "IPNet", ip |-> TenNetIP], [type |-> "IPAddr", ip |-> HomeNetIP],
      [type |-> "IPNet", ip |-> LoopbackIP], [type |-> "IPNet", ip |-> LinkLocalIP6],
      [type |-> "IPNet", ip |-> NilIP], [type |-> "IPAddr", ip |-> TenNetIP16] }

\* The sequences over S of length at most n.
SeqUpTo(S, n) == UNION {[1..k -> S] : k \in 0..n}

\* Interfaces net.Interfaces() may list: the flags FlagUp and FlagLoopback,
\* and what Addrs() returns, an error or a list.
Interfaces ==
    [up : BOOLEAN, loopback : BOOLEAN, addrsErr : {FALSE},
     addrs : SeqUpTo(Addrs, MaxAddrs)]
      \cup [up : BOOLEAN, loopback : BOOLEAN, addrsErr : {TRUE}, addrs : {<<>>}]

\* Hosts: what net.Interfaces() returns, an error or a list.
Hosts ==
    [err : {FALSE}, interfaces : SeqUpTo(Interfaces, MaxInterfaces)]
      \cup [err : {TRUE}, interfaces : {<<>>}]

\* The 16-byte form of an IPv4 address given in the 4-byte form, as
\* net.ParseIP and net.IPv4 build it.
To16(ip) == IP(<<0, 0, 0, 0, 0, 0, 0, 0, 0, 0, 255, 255>> \o ip.bytes)

\* IP values a caller may put in an address: nil; IPv4 addresses in both
\* forms, 127.0.0.0/8 among them; IPv6 addresses, ::1 among them; and
\* slices that are no address, the empty one and one of 5 bytes.
IPv4Samples == {IP(<<a, 0, 0, d>>) : a \in {0, 10, 127, 192}, d \in {1, 5}}

IPSamples ==
    {NilIP} \cup IPv4Samples \cup {To16(ip) : ip \in IPv4Samples}
      \cup {IPv6loopback, LinkLocalIP6,
            IP(<<32, 1, 13, 184, 0, 0, 0, 0, 0, 0, 0, 0, 0, 0, 0, 1>>),
            IP(<<0, 0, 0, 0, 0, 0, 0, 0, 0, 0, 0, 0, 0, 0, 0, 0>>),
            IP(<< >>), IP(<<10, 0, 0, 5, 0>>)}

\* The net.Addr values extractIPFromAddr may be called with: the two types
\* it handles and two it does not.
AddrTypes == {"IPNet", "IPAddr", "TCPAddr", "UDPAddr"}
AddrSamples == [type : AddrTypes, ip : IPSamples]

\* No call of getLocalIP or extractIPFromAddr is being followed.
NoLookup == [pc |-> "none", host |-> [err |-> TRUE, interfaces |-> <<>>],
             addr |-> [type |-> "IPNet", ip |-> NilIP],
             ip |-> NilIP, err |-> FALSE]

(***************************************************************************)
(* State                                                                   *)
(***************************************************************************)
VARIABLES
    globalInstanceCounter,  \* the process-wide counter of NewGenerator
    gens,                   \* the generators the program holds; gens[1] is Generator
    threads,                \* each goroutine's position and locals
    clock,                  \* the wall clock, and how it has moved
    env,                    \* what the host-name and address lookups return
    created,                \* history: every NewGenerator call's counter value and instance ID
    issued,                 \* history: the identifiers returned to callers
    loops,                  \* loops run so far: of discarded calls, of dropped generators
    begun,                  \* history: the GenerateUint64ID calls begun on each generator
    net                     \* a call of getLocalIP: the host's interfaces and the result

vars == <<globalInstanceCounter, gens, threads, clock, env, created, issued, loops,
          begun, net>>

\* A goroutine outside the package.  Inside a call it holds the call's locals
\* and two facts about the counter increment of the call: k, which says that
\* the call was the k-th begun on its generator, and at, the clock reading at
\* the increment (kept until the identifier has been handed on); via says
\* how the call was made: on a generator ("method") or through the package
\* functions UniqUID and UniqID.
Idle == [pc |-> "idle", g |-> 0, op |-> "none", c |-> 0, ts |-> Zero64,
         id |-> Zero64, i |-> 0, suffix |-> <<>>, seed |-> 0,
         k |-> 0, at |-> Zero64, via |-> "none"]

\* A lost update: the increment is not applied.
AtomicAddUint64_Lost(v, delta) == v

\* The stored counter is kept within the 14 bits of the sequence field.
AtomicAddUint64_Wrapped(v, delta) == (v + delta) % (MaxCounter + 1)

\* The increment is applied twice.
AtomicAddUint64_Twice(v, delta) == v + delta + delta

\* atomic.AddUint64(&v, delta): the new value.
AtomicAddUint64(v, delta) == v + delta

\* A mask one bit short.
InstanceIDOf_3Bits(n) == And(U64(n), U64(7))

\* The hash is stored whole.
MachineIDOf_Unmasked(h) == h

\* The instance ID is derived from the counter's value before the increment.
InstanceIDOf_OldValue(n) == And(Sub(U64(n), U64(1)), U64(MaxInstanceID))

\* The instance ID NewGenerator derives from the counter value it obtained.
InstanceIDOf(n) == And(U64(n), U64(MaxInstanceID))

\* The machine ID NewGenerator keeps of generateMachineID()'s value h.
MachineIDOf(h) == And(h, U64(MaxMachineID))

\* The IDGenerator NewGenerator returns.
IDGenerator(machineID, instanceID, seed) ==
    [machineID |-> machineID, instanceID |-> instanceID, counter |-> 0,
     rng |-> [seed |-> seed, pos |-> 0], mu |-> 0]

\* What the history keeps of a NewGenerator call: the counter value its
\* atomic increment returned, and the instance ID derived from it.
Creation(n) == [n |-> n, instanceID |-> ToNat(InstanceIDOf(n))]

\* The creations of k successive NewGenerator calls, the counter being v
\* before the first.
RECURSIVE CreationsFrom(_, _)
CreationsFrom(v, k) ==
    IF k = 0 THEN <<>>
    ELSE <<Creation(AtomicAddUint64(v, 1))>>
            \o CreationsFrom(AtomicAddUint64(v, 1), k - 1)

\* Package initialisation runs var Generator = NewGenerator() before any
\* goroutine of the program: the counter goes from 0 to 1.
InitNew ==
    \E e \in [hostname : Hostnames, localIP : LocalIPs], seed \in Seeds :
      \E h \in generateMachineID(e) :
        /\ env = e
        /\ globalInstanceCounter = AtomicAddUint64(0, 1)
        /\ gens = << IDGenerator(MachineIDOf(h),
                                 InstanceIDOf(AtomicAddUint64(0, 1)), seed) >>
        /\ created = CreationsFrom(0, 1)
        /\ threads = [t \in Threads |-> Idle]
        /\ clock = [now |-> T0, moves |-> 0, regressed |-> FALSE]
        /\ issued = {}
        /\ loops = [calls |-> 0, news |-> 0, created |-> 0]
        /\ begun = [g \in 1..Len(gens) |-> 0]
        /\ net = NoLookup

\* Processes that have finished creating generators: in the environment
\* given, `made` generators were created one after another (the default one
\* first) and the program holds the default one and, when made > 1, the last.
Setups ==
    LET named == [name |-> WebFive, err |-> FALSE]
        failed == [name |-> <<>>, err |-> TRUE]
        addr == [ip |-> TenNet, err |-> FALSE]
    IN  { [hostname |-> named, localIP |-> addr, made |-> 1, seed |-> 1],
          [hostname |-> named, localIP |-> addr, made |-> 1, seed |-> 2],
          [hostname |-> named, localIP |-> addr, made |-> 16, seed |-> 1],
          [hostname |-> named, localIP |-> addr, made |-> 17, seed |-> 1],
          [hostname |-> failed, localIP |-> addr, made |-> 1, seed |-> 1] }

Init ==
    \E s \in Setups :
      \E h1, h2 \in generateMachineID([hostname |-> s.hostname, localIP |-> s.localIP]) :
        /\ env = [hostname |-> s.hostname, localIP |-> s.localIP]
        /\ globalInstanceCounter = AtomicAddUint64(0, s.made)
        /\ gens = << IDGenerator(MachineIDOf(h1),
                                 InstanceIDOf(AtomicAddUint64(0, 1)), s.seed) >>
                  \o IF s.made > 1
                     THEN << IDGenerator(MachineIDOf(h2),
                                         InstanceIDOf(AtomicAddUint64(0, s.made)), 1) >>
                     ELSE << >>
        /\ created = CreationsFrom(0, s.made)
        /\ threads = [t \in Threads |-> Idle]
        /\ clock = [now |-> T0, moves |-> 0, regressed |-> FALSE]
        /\ issued = {}
        /\ loops = [calls |-> 0, news |-> 0, created |-> 0]
        /\ begun = [g \in 1..Len(gens) |-> 0]
        /\ net = NoLookup

InCall(t) == threads[t].pc \in {"time", "lock", "draw", "unlock", "return"}

\* Generation calls started so far.
Started == Cardinality(issued) + Cardinality({t \in Threads : InCall(t)})

(***************************************************************************)
(* NewGenerator                                                            *)
(***************************************************************************)
\* NewGenerator calls made one by one so far (the loops' are not counted).
NewCalls == Len(created) - 1 - loops.created

\* Lines 90-93: the seed is read from the clock and the process-wide counter
\* is incremented atomically; the instance ID is the new value's low bits.
NewGenerator_Count(t) ==
    /\ threads[t].pc = "idle"
    /\ NewCalls < MaxNew
    /\ \E seed \in Seeds :
         /\ globalInstanceCounter' = AtomicAddUint64(globalInstanceCounter, 1)
         /\ threads' = [threads EXCEPT ![t] =
               [Idle EXCEPT !.pc = "new", !.seed = seed,
                            !.id = InstanceIDOf(globalInstanceCounter')]]
         /\ created' = Append(created, Creation(globalInstanceCounter'))
    /\ UNCHANGED <<gens, clock, env, issued, loops, begun, net>>

\* Lines 95-100: the machine ID is derived and the generator returned.  The
\* caller keeps it (it joins gens) or drops it.
NewGenerator_Return(t, keep) ==
    /\ threads[t].pc = "new"
    /\ keep => Len(gens) < MaxLive
    /\ \E h \in generateMachineID(env) :
         gens' = IF keep
                 THEN Append(gens, IDGenerator(MachineIDOf(h), threads[t].id,
                                               threads[t].seed))
                 ELSE gens
    /\ begun' = IF keep THEN Append(begun, 0) ELSE begun
    /\ threads' = [threads EXCEPT ![t] = Idle]
    /\ UNCHANGED <<globalInstanceCounter, clock, env, created, issued, loops, net>>

\* A loop of n NewGenerator calls whose generators are dropped when it ends,
\* as multipleGenerators of examples/main.go runs.  Each call adds 1 to the
\* process-wide counter.
CreateLoop(n) ==
    /\ loops.news < MaxCreateLoops
    /\ \A t \in Threads : threads[t].pc # "new"
    /\ loops' = [loops EXCEPT !.news = @ + 1, !.created = @ + n]
    /\ globalInstanceCounter' = AtomicAddUint64(globalInstanceCounter, n)
    /\ created' = created \o CreationsFrom(globalInstanceCounter, n)
    /\ UNCHANGED <<gens, threads, clock, env, issued, begun, net>>

(***************************************************************************)
(* GenerateUint64ID and GenerateStringID                                   *)
(***************************************************************************)
\* The call also consumes a draw of the generator's random stream.
Enter_AdvancesStream(t, g, op, via) ==
    /\ threads[t].pc = "idle"
    /\ g \in 1..Len(gens)
    /\ Started < MaxCalls
    /\ gens' = [gens EXCEPT ![g].counter = AtomicAddUint64(gens[g].counter, 1),
                            ![g].rng = AfterDraw(@)]
    /\ begun' = [begun EXCEPT ![g] = @ + 1]
    /\ threads' = [threads EXCEPT ![t] =
          [Idle EXCEPT !.pc = "time", !.g = g, !.op = op, !.c = gens'[g].counter,
                       !.k = begun'[g], !.at = clock.now, !.via = via]]
    /\ UNCHANGED <<globalInstanceCounter, clock, env, created, issued, loops, net>>

\* The call gets the counter's value before the increment.
Enter_ReturnsOldValue(t, g, op, via) ==
    /\ threads[t].pc = "idle"
    /\ g \in 1..Len(gens)
    /\ Started < MaxCalls
    /\ gens' = [gens EXCEPT ![g].counter = AtomicAddUint64(gens[g].counter, 1)]
    /\ begun' = [begun EXCEPT ![g] = @ + 1]
    /\ threads' = [threads EXCEPT ![t] =
          [Idle EXCEPT !.pc = "time", !.g = g, !.op = op, !.c = gens[g].counter,
                       !.k = begun'[g], !.at = clock.now, !.via = via]]
    /\ UNCHANGED <<globalInstanceCounter, clock, env, created, issued, loops, net>>

\* nextCounter (line 139), the first statement of GenerateUint64ID.  A call
\* of GenerateStringID begins with GenerateUint64ID (line 108).
Enter(t, g, op, via) ==
    /\ threads[t].pc = "idle"
    /\ g \in 1..Len(gens)
    /\ Started < MaxCalls
    /\ gens' = [gens EXCEPT ![g].counter = AtomicAddUint64(gens[g].counter, 1)]
    /\ begun' = [begun EXCEPT ![g] = @ + 1]
    /\ threads' = [threads EXCEPT ![t] =
          [Idle EXCEPT !.pc = "time", !.g = g, !.op = op, !.c = gens'[g].counter,
                       !.k = begun'[g], !.at = clock.now, !.via = via]]
    /\ UNCHANGED <<globalInstanceCounter, clock, env, created, issued, loops, net>>

\* A call of g.GenerateUint64ID() or g.GenerateStringID() by the program.
NextCounter(t, g, op) ==
    /\ op \in {"uint64", "string"}
    /\ Enter(t, g, op, "method")

\* The package functions use the generator created last.
Generator_Newest == Len(gens)

\* var Generator = NewGenerator(): the default generator is the first one.
Generator == 1

\* UniqUID(): return Generator.GenerateUint64ID()
UniqUID(t) ==
    /\ threads[t].pc = "idle"
    /\ Enter(t, Generator, "uint64", "UniqUID")

\* UniqID(): return Generator.GenerateStringID()
UniqID(t) ==
    /\ threads[t].pc = "idle"
    /\ Enter(t, Generator, "string", "UniqID")

\* The call waits while the clock is behind the timestamp of an identifier
\* the generator has returned.
ReadClock_WaitsForClock(t) ==
    /\ threads[t].pc = "time"
    /\ \A r \in issued : r.g = threads[t].g => ~Less(clock.now, r.ts)
    /\ LET th == threads[t]
       IN  threads' = [threads EXCEPT ![t] =
              [th EXCEPT !.pc = IF th.op = "string" THEN "lock" ELSE "return",
                         !.ts = clock.now,
                         !.id = PackID(gens[th.g].machineID, gens[th.g].instanceID,
                                       clock.now, U64(th.c))]]
    /\ UNCHANGED <<globalInstanceCounter, gens, clock, env, created, issued, loops, begun, net>>

\* The timestamp is a millisecond short of the clock.
ReadClock_MillisecondShort(t) ==
    /\ threads[t].pc = "time"
    /\ LET th == threads[t]
           timestamp == Sub(clock.now, U64(1))
       IN  threads' = [threads EXCEPT ![t] =
              [th EXCEPT !.pc = IF th.op = "string" THEN "lock" ELSE "return",
                         !.ts = timestamp,
                         !.id = PackID(gens[th.g].machineID, gens[th.g].instanceID,
                                       timestamp, U64(th.c))]]
    /\ UNCHANGED <<globalInstanceCounter, gens, clock, env, created, issued, loops, begun, net>>

\* The instance ID is taken from the process-wide counter at each call, not
\* from the generator's field.
ReadClock_InstanceFromCounter(t) ==
    /\ threads[t].pc = "time"
    /\ LET th == threads[t]
       IN  threads' = [threads EXCEPT ![t] =
              [th EXCEPT !.pc = IF th.op = "string" THEN "lock" ELSE "return",
                         !.ts = clock.now,
                         !.id = PackID(gens[th.g].machineID,
                                       InstanceIDOf(globalInstanceCounter),
                                       clock.now, U64(th.c))]]
    /\ UNCHANGED <<globalInstanceCounter, gens, clock, env, created, issued, loops, begun, net>>

\* Lines 124-132: the clock is read and the identifier packed.
ReadClock(t) ==
    /\ threads[t].pc = "time"
    /\ LET th == threads[t]
       IN  threads' = [threads EXCEPT ![t] =
              [th EXCEPT !.pc = IF th.op = "string" THEN "lock" ELSE "return",
                         !.ts = clock.now,
                         !.id = PackID(gens[th.g].machineID, gens[th.g].instanceID,
                                       clock.now, U64(th.c))]]
    /\ UNCHANGED <<globalInstanceCounter, gens, clock, env, created, issued, loops, begun, net>>

\* The mutex is taken without waiting for it to be free.
Lock_NoWait(t) ==
    /\ threads[t].pc = "lock"
    /\ gens' = [gens EXCEPT ![threads[t].g].mu = t]
    /\ threads' = [threads EXCEPT ![t].pc = "draw", ![t].at = Zero64]
    /\ UNCHANGED <<globalInstanceCounter, clock, env, created, issued, loops, begun, net>>

\* generateRandomSuffix, line 159: g.mu.Lock() waits until the mutex is free.
Lock(t) ==
    /\ threads[t].pc = "lock"
    /\ gens[threads[t].g].mu = 0
    /\ gens' = [gens EXCEPT ![threads[t].g].mu = t]
    /\ threads' = [threads EXCEPT ![t].pc = "draw", ![t].at = Zero64]
    /\ UNCHANGED <<globalInstanceCounter, clock, env, created, issued, loops, begun, net>>

\* Lines 160-162: one iteration of the loop, one draw from g.rng.
Draw(t) ==
    /\ threads[t].pc = "draw"
    /\ threads[t].i < RandomSuffixLength
    /\ LET th == threads[t]
       IN  /\ gens' = [gens EXCEPT ![th.g].rng = AfterDraw(@)]
           /\ threads' = [threads EXCEPT ![t] =
                 [th EXCEPT !.suffix = Append(@, CharSet[Intn(gens[th.g].rng) + 1]),
                            !.i = @ + 1,
                            !.pc = IF th.i + 1 < RandomSuffixLength
                                   THEN "draw" ELSE "unlock"]]
    /\ UNCHANGED <<globalInstanceCounter, clock, env, created, issued, loops, begun, net>>

\* The mutex is not released.
Unlock_KeepsMutex(t) ==
    /\ threads[t].pc = "unlock"
    /\ gens' = gens
    /\ threads' = [threads EXCEPT ![t].pc = "return"]
    /\ UNCHANGED <<globalInstanceCounter, clock, env, created, issued, loops, begun, net>>

\* Line 163: g.mu.Unlock().
Unlock(t) ==
    /\ threads[t].pc = "unlock"
    /\ gens' = [gens EXCEPT ![threads[t].g].mu = 0]
    /\ threads' = [threads EXCEPT ![t].pc = "return"]
    /\ UNCHANGED <<globalInstanceCounter, clock, env, created, issued, loops, begun, net>>

\* The call returns: the number (line 132), or the text (line 110).
Return(t) ==
    /\ threads[t].pc = "return"
    /\ issued' = issued \cup
          {[g |-> threads[t].g, op |-> threads[t].op, c |-> threads[t].c,
            k |-> threads[t].k, via |-> threads[t].via,
            ts |-> threads[t].ts, id |-> threads[t].id,
            text |-> IF threads[t].op = "string"
                     THEN Sprintf2(FormatUint16(threads[t].id), threads[t].suffix)
                     ELSE <<>>]}
    /\ threads' = [threads EXCEPT ![t] = Idle]
    /\ UNCHANGED <<globalInstanceCounter, gens, clock, env, created, loops, begun, net>>

\* The next step of goroutine t inside a generation call.
CallStep(t) ==
    \/ ReadClock(t)
    \/ Lock(t)
    \/ Draw(t)
    \/ Unlock(t)
    \/ Return(t)

\* A loop of n calls whose results are dropped, as the benchmarks run:
\* for ... { _ = gen.GenerateUint64ID() }.  Each call adds 1 to the counter.
DiscardLoop(g, n) ==
    /\ g \in 1..Len(gens)
    /\ loops.calls < MaxLoops
    /\ loops' = [loops EXCEPT !.calls = @ + 1]
    /\ gens' = [gens EXCEPT ![g].counter = AtomicAddUint64(gens[g].counter, n)]
    /\ begun' = [begun EXCEPT ![g] = @ + n]
    /\ UNCHANGED <<globalInstanceCounter, threads, clock, env, created, issued, net>>

(***************************************************************************)
(* The wall clock                                                          *)
(***************************************************************************)
\* A millisecond passes.
Tick ==
    /\ clock.moves < MaxClockMoves
    /\ clock' = [clock EXCEPT !.now = Add(clock.now, U64(1)), !.moves = @ + 1]
    /\ UNCHANGED <<globalInstanceCounter, gens, threads, env, created, issued, loops, begun, net>>

\* The clock is set (an NTP step, an operator): forward or backward.
SetClock(v) ==
    /\ clock.moves < MaxClockMoves
    /\ v # clock.now
    /\ clock' = [now |-> v, moves |-> clock.moves + 1,
                 regressed |-> clock.regressed \/ Less(v, clock.now)]
    /\ UNCHANGED <<globalInstanceCounter, gens, threads, env, created, issued, loops, begun, net>>

\* The clock is set back by a millisecond, once, to a reading it may have
\* shown before.
StepBack ==
    /\ ~clock.regressed
    /\ clock' = [clock EXCEPT !.now = Sub(clock.now, U64(1)), !.regressed = TRUE]
    /\ UNCHANGED <<globalInstanceCounter, gens, threads, env, created, issued, loops, begun, net>>

\* The program in service: goroutines generate identifiers, time passes.
Next ==
    \/ \E t \in Threads, g \in 1..MaxLive, op \in {"uint64", "string"} :
          NextCounter(t, g, op)
    \/ \E t \in Threads : ReadClock(t)
    \/ \E t \in Threads : Lock(t)
    \/ \E t \in Threads : Draw(t)
    \/ \E t \in Threads : Unlock(t)
    \/ \E t \in Threads : Return(t)
    \/ \E g \in 1..MaxLive, n \in {MaxCounter - 1, MaxCounter} : DiscardLoop(g, n)
    \/ Tick
    \/ \E v \in ClockSamples : SetClock(v)

Spec == Init /\ [][Next]_vars

\* The program calling the package functions as well as the default
\* generator and another generator directly: the process has created 16
\* generators.
InitPkg ==
    /\ Init
    /\ Len(created) = MaxInstanceID + 1

NextPkg ==
    \/ \E t \in Threads : UniqUID(t)
    \/ \E t \in Threads : UniqID(t)
    \/ Next

SpecPkg == InitPkg /\ [][NextPkg]_vars

\* The program in service on a host whose clock comes back to a reading it
\* has shown: one generator, the default one.
InitClock ==
    /\ Init
    /\ Len(created) = 1
    /\ env.hostname.name = WebFive
    /\ gens[1].rng.seed = 1

NextClock ==
    \/ StepBack
    \/ Next

SpecClock == InitClock /\ [][NextClock]_vars

\* The program in service under a fair scheduler: a goroutine inside a call
\* whose next step stays possible eventually takes it.  The process holds two
\* generators.
InitFair ==
    /\ Init
    /\ Len(gens) = MaxLive
    /\ Len(created) = MaxInstanceID + 1

NextFair ==
    \/ \E t \in Threads, g \in 1..MaxLive, op \in {"uint64", "string"} :
          NextCounter(t, g, op)
    \/ \E t \in Threads : CallStep(t)
    \/ Tick

Fairness == \A t \in Threads : WF_vars(CallStep(t))

SpecFair == InitFair /\ [][NextFair]_vars /\ Fairness

\* The program creating generators while others generate identifiers, on a
\* host whose lookups succeed.
InitAll ==
    /\ InitNew
    /\ ~env.hostname.err
    /\ env.hostname.name # <<>>
    /\ ~env.localIP.err
    /\ gens[1].rng.seed = 1

NextAll ==
    \/ \E t \in Threads : NewGenerator_Count(t)
    \/ \E t \in Threads, keep \in BOOLEAN : NewGenerator_Return(t, keep)
    \/ \E t \in Threads, g \in 1..MaxLive, op \in {"uint64", "string"} :
          NextCounter(t, g, op)
    \/ \E t \in Threads : CallStep(t)
    \/ Tick

SpecAll == InitAll /\ [][NextAll]_vars

(***************************************************************************)
(* The address lookup of generateMachineID                                 *)
(***************************************************************************)
\* Package initialisation has reached generateMachineID in NewGenerator:
\* the process-wide counter has been incremented, no generator exists yet,
\* the host name is known and getLocalIP is about to be called on a host.
InitNet ==
    /\ net \in {[NoLookup EXCEPT !.pc = "call", !.host = h] : h \in Hosts}
    /\ env = [hostname |-> [name |-> WebFive, err |-> FALSE],
              localIP |-> [ip |-> <<>>, err |-> FALSE]]
    /\ globalInstanceCounter = AtomicAddUint64(0, 1)
    /\ gens = << >>
    /\ created = CreationsFrom(0, 1)
    /\ threads = [t \in Threads |-> Idle]
    /\ clock = [now |-> T0, moves |-> 0, regressed |-> FALSE]
    /\ issued = {}
    /\ loops = [calls |-> 0, news |-> 0, created |-> 0]
    /\ begun = << >>

\* Lines 180-187 of generateMachineID: getLocalIP runs and returns; on
\* success the address is kept as its String().
GetLocalIP ==
    /\ net.pc = "call"
    /\ LET r == getLocalIP(net.host)
       IN  /\ net' = [net EXCEPT !.pc = "done", !.ip = r.ip, !.err = r.err]
           /\ env' = [env EXCEPT !.localIP =
                         IF r.err THEN [ip |-> <<>>, err |-> TRUE]
                         ELSE [ip |-> IPString(r.ip), err |-> FALSE]]
    /\ UNCHANGED <<globalInstanceCounter, gens, threads, clock, created, issued,
                   loops, begun>>

NextNet == GetLocalIP

SpecNet == InitNet /\ [][NextNet]_vars

\* A caller inside the package (getLocalIP, a test) is about to call
\* extractIPFromAddr on an address; the process has its default generator.
InitAddr ==
    /\ net \in {[NoLookup EXCEPT !.pc = "extract", !.addr = a] : a \in AddrSamples}
    /\ env = [hostname |-> [name |-> WebFive, err |-> FALSE],
              localIP |-> [ip |-> TenNet, err |-> FALSE]]
    /\ globalInstanceCounter = AtomicAddUint64(0, 1)
    /\ gens \in {<< IDGenerator(MachineIDOf(h), InstanceIDOf(AtomicAddUint64(0, 1)), 1) >> :
                    h \in generateMachineID(env)}
    /\ created = CreationsFrom(0, 1)
    /\ threads = [t \in Threads |-> Idle]
    /\ clock = [now |-> T0, moves |-> 0, regressed |-> FALSE]
    /\ issued = {}
    /\ loops = [calls |-> 0, news |-> 0, created |-> 0]
    /\ begun = [g \in 1..Len(gens) |-> 0]

\* extractIPFromAddr(addr) runs and returns.
ExtractIPFromAddr ==
    /\ net.pc = "extract"
    /\ net' = [net EXCEPT !.pc = "extracted", !.ip = extractIPFromAddr(net.addr)]
    /\ UNCHANGED <<globalInstanceCounter, gens, threads, clock, env, created, issued,
                   loops, begun>>

NextAddr == ExtractIPFromAddr

SpecAddr == InitAddr /\ [][NextAddr]_vars

\* The program creating generators.
NextNew ==
    \/ \E t \in Threads : NewGenerator_Count(t)
    \/ \E t \in Threads, keep \in BOOLEAN : NewGenerator_Return(t, keep)
    \/ \E n \in {MaxInstanceID - 1, MaxInstanceID} : CreateLoop(n)

SpecNew == InitNew /\ [][NextNew]_vars

(***************************************************************************)
(* Properties                                                              *)
(***************************************************************************)
\* Two different calls on the same generator.
SameGenerator(r1, r2) == r1.g = r2.g /\ r1 # r2

\* C1: while the clock has never moved backward, the numeric identifiers
\* returned by one generator are pairwise distinct, however many calls fall
\* into one millisecond.
C1_NumericIDsDistinct ==
    ~clock.regressed =>
        \A r1, r2 \in issued : SameGenerator(r1, r2) => r1.id # r2.id

C3_GeneratorsNeverShareID ==
    Len(created) <= MaxInstanceID + 1 =>
        \A r1, r2 \in issued : r1.g # r2.g => r1.id # r2.id

\* Two generators of a process of at most 16 have answered in the same
\* millisecond with the same counter value, and the clock has been set back.
C3_Witness ==
    /\ Len(created) = MaxInstanceID + 1
    /\ \E r1, r2 \in issued : r1.g # r2.g /\ r1.ts = r2.ts /\ r1.c = r2.c
    /\ \E r \in issued : Less(r.ts, T0)

\* C4 as stated: no two generators ever created have the same instance ID.
C4_InstanceIDsAllDistinct ==
    \A a \in 1..Len(created) : \A b \in (a + 1)..Len(created) :
        created[a].instanceID # created[b].instanceID

\* C4 as amended: while at most 16 generators have been created, no two of
\* them have the same instance ID.
C4_InstanceIDsDistinctUpTo16 ==
    Len(created) <= MaxInstanceID + 1 => C4_InstanceIDsAllDistinct

\* Sixteen generators have been created.
C4_Witness == Len(created) = MaxInstanceID + 1

\* C5: every NewGenerator call obtains a counter value of its own, and any
\* generators fewer than 16 creations apart (back-to-back ones among them)
\* have different instance IDs.
C5_NoLostIncrement ==
    \A a \in 1..Len(created) : \A b \in (a + 1)..Len(created) :
        /\ created[a].n # created[b].n
        /\ b - a < MaxInstanceID + 1
              => created[a].instanceID # created[b].instanceID

\* Two goroutines are inside NewGenerator at once, after more than 16
\* creations.
C5_Witness ==
    /\ \A t \in Threads : threads[t].pc = "new"
    /\ Len(created) > MaxInstanceID + 1

\* Goroutine t's GenerateUint64ID call has just built its identifier: the
\* value is about to be returned (line 132), or has just been received by
\* GenerateStringID (line 108).
JustPacked(t) ==
    threads[t].pc = (IF threads[t].op = "string" THEN "lock" ELSE "return")

\* x mod 2^k and x * 2^k, by arithmetic on 64-bit words.
Mod2To(x, k) == Sub(x, Shl(Shr(x, k), k))
TimesPow2(x, k) == Shl(x, k)

\* m * 2^60 + i * 2^56 + (t mod 2^42) * 2^14 + (c mod 2^14)
FieldSum(m, i, t, c) ==
    Add(Add(TimesPow2(m, 60), TimesPow2(i, 56)),
        Add(TimesPow2(Mod2To(t, 42), 14), Mod2To(c, 14)))

\* 0x3162f3f95a000001: the value for m = 3, i = 1, t = 1700000000000, c = 1.
ExampleID == ParseUint16(<<"3", "1", "6", "2", "f", "3", "f", "9",
                           "5", "a", "0", "0", "0", "0", "0", "1">>)

\* C6: the identifier GenerateUint64ID builds from machine ID m, instance ID
\* i, sampled timestamp t and obtained counter value c is
\* m*2^60 + i*2^56 + (t mod 2^42)*2^14 + (c mod 2^14); for m = 3, i = 1,
\* t = 1700000000000 and c = 1 it is 0x3162f3f95a000001.
C6_IDIsSumOfFields ==
    \A t \in Threads :
        JustPacked(t) =>
            LET th == threads[t]
                gen == gens[th.g]
            IN  /\ th.id = FieldSum(gen.machineID, gen.instanceID, th.ts, U64(th.c))
                /\ (/\ gen.machineID = U64(3)
                    /\ gen.instanceID = U64(1)
                    /\ th.ts = T0
                    /\ th.c = 1) => th.id = ExampleID

\* The call of the example is about to return, and another call is about to
\* return a timestamp beyond 2^42 with a counter value beyond 2^14.
C6_Witness ==
    /\ \E t \in Threads :
          /\ threads[t].pc = "return"
          /\ gens[threads[t].g].machineID = U64(3)
          /\ gens[threads[t].g].instanceID = U64(1)
          /\ threads[t].ts = T0
          /\ threads[t].c = 1
    /\ \E t \in Threads :
          /\ threads[t].pc = "return"
          /\ ~Less(threads[t].ts, Shl(U64(1), 42))
          /\ threads[t].c > MaxCounter

\* The four fields of an identifier, taken out by shift and mask.
MachineField(id) == And(Shr(id, MachineIDShift), U64(MaxMachineID))
InstanceField(id) == And(Shr(id, InstanceIDShift), U64(MaxInstanceID))
TimestampField(id) == And(Shr(id, TimestampShift), MaxTimestamp)
CounterField(id) == And(id, U64(MaxCounter))

\* C7: shifting and masking an identifier gives back the generator's machine
\* ID and instance ID, the sampled timestamp mod 2^42 and the counter value
\* mod 2^14, and packing these four again gives the identifier.
C7_FieldsRoundTrip ==
    \A t \in Threads :
        JustPacked(t) =>
            LET th == threads[t]
                gen == gens[th.g]
            IN  /\ MachineField(th.id) = gen.machineID
                /\ InstanceField(th.id) = gen.instanceID
                /\ TimestampField(th.id) = Mod2To(th.ts, 42)
                /\ CounterField(th.id) = U64(th.c % (MaxCounter + 1))
                /\ PackID(MachineField(th.id), InstanceField(th.id),
                          TimestampField(th.id), CounterField(th.id)) = th.id

\* An identifier is built from a counter value beyond 2^14 and a timestamp
\* beyond 2^42, by a generator whose instance counter value was beyond 15.
C7_Witness ==
    \E t \in Threads :
        /\ JustPacked(t)
        /\ threads[t].c > MaxCounter
        /\ ~Less(threads[t].ts, Shl(U64(1), 42))
        /\ globalInstanceCounter > MaxInstanceID

\* C8: every generator's machine ID and instance ID are in 0..15, and the
\* sequence field of every returned identifier is in 0..16383.
C8_FieldsInRange ==
    /\ \A g \in 1..Len(gens) :
          /\ Less(gens[g].machineID, U64(MaxMachineID + 1))
          /\ Less(gens[g].instanceID, U64(MaxInstanceID + 1))
    /\ \A r \in issued :
          Less(Sub(r.id, Shl(Shr(r.id, TimestampShift), TimestampShift)),
               U64(MaxCounter + 1))

\* The seventeenth generator of a process has returned an identifier built
\* from a counter value beyond 16383.
C8_Witness ==
    /\ globalInstanceCounter > MaxInstanceID + 1
    /\ \E r \in issued : r.g = Len(gens) /\ r.c > MaxCounter

\* The milliseconds the timestamp of an identifier may be away from the clock.
Tolerance == 5000

\* a and b are at most d apart.
Within(a, b, d) == Less(Sub(a, b), U64(d + 1)) \/ Less(Sub(b, a), U64(d + 1))

\* Goroutine t's GenerateUint64ID call, made by the caller, is at its return.
AtReturn(t) == threads[t].pc = "return" /\ threads[t].op = "uint64"

\* C9 as stated: when GenerateUint64ID returns with the clock no more than
\* 5000 ms away from where the call sampled it, the timestamp field of the
\* identifier is within 5000 ms of the clock, whatever the clock shows.
C9_TimestampNearClock ==
    \A t \in Threads :
        (AtReturn(t) /\ Within(threads[t].ts, clock.now, Tolerance))
            => Within(TimestampField(threads[t].id), clock.now, Tolerance)

\* C9 as amended: the same, for the calls that sampled a clock below 2^42.
C9_TimestampNearClockBelow2To42 ==
    \A t \in Threads :
        (/\ AtReturn(t)
         /\ Within(threads[t].ts, clock.now, Tolerance)
         /\ Less(threads[t].ts, Shl(U64(1), 42)))
            => Within(TimestampField(threads[t].id), clock.now, Tolerance)

\* A call is at its return a millisecond after it sampled a clock below 2^42.
C9_Witness ==
    \E t \in Threads :
        /\ AtReturn(t)
        /\ Less(threads[t].ts, Shl(U64(1), 42))
        /\ clock.now = Add(threads[t].ts, U64(1))

\* The characters of a sequence.
Range(f) == {f[k] : k \in 1..Len(f)}

\* The text before the suffix of a textual identifier.
HexPart(text) == SubSeq(text, 1, Len(text) - RandomSuffixLength)

C11_TextIs24Chars ==
    \A r \in issued :
        r.op = "string" => Len(r.text) = 16 + RandomSuffixLength

\* C12: of two GenerateUint64ID calls begun one right after the other on a
\* generator (as the consecutive calls of a single goroutine on a generator
\* nobody else uses are), the later returns a larger sequence field than the
\* earlier, or the earlier returns 16383 and the later 0; the milliseconds
\* they fall in do not matter.
C12_SequenceFieldGrows ==
    \A r1, r2 \in issued :
        (r1.g = r2.g /\ r2.k = r1.k + 1) =>
            \/ ToNat(CounterField(r2.id)) > ToNat(CounterField(r1.id))
            \/ /\ ToNat(CounterField(r1.id)) = MaxCounter
               /\ ToNat(CounterField(r2.id)) = 0

\* Two calls begun one after the other have returned sequence fields 16383
\* and 0, in different milliseconds.
C12_Witness ==
    \E r1, r2 \in issued :
        /\ r1.g = r2.g /\ r2.k = r1.k + 1
        /\ ToNat(CounterField(r1.id)) = MaxCounter
        /\ ToNat(CounterField(r2.id)) = 0
        /\ r1.ts # r2.ts

\* The calls made on generator g that are under way or have returned: the
\* ordinal of each and the counter value it obtained.
Calls(g) ==
    {[k |-> r.k, c |-> r.c] : r \in {x \in issued : x.g = g}}
        \cup {[k |-> threads[t].k, c |-> threads[t].c] :
                t \in {u \in Threads : InCall(u) /\ threads[u].g = g}}

\* C13: after n calls begun on a generator, in any interleaving, its counter
\* is n, no two calls have obtained the same counter value, every value
\* obtained is in 1..n, and the n calls have obtained exactly 1..n.
C13_CounterLosesNoUpdate ==
    \A g \in 1..Len(gens) :
        /\ gens[g].counter = begun[g]
        /\ \A x, y \in Calls(g) : x.k # y.k => x.c # y.c
        /\ \A x \in Calls(g) : x.c \in 1..begun[g]
        /\ Cardinality(Calls(g)) = begun[g]
              => {x.c : x \in Calls(g)} = 1..begun[g]

\* Two goroutines are inside calls on the same generator at once, one in
\* GenerateUint64ID and one in GenerateStringID, and no other call was made.
C13_Witness ==
    \E g \in 1..Len(gens) :
        /\ begun[g] = NumThreads
        /\ \A t \in Threads : threads[t].pc = "time" /\ threads[t].g = g
        /\ \E t, u \in Threads : threads[t].op = "uint64" /\ threads[u].op = "string"

\* C14: the machine ID of every generator NewGenerator returns is not zero.
C14_MachineIDNeverZero ==
    \A g \in 1..Len(gens) : gens[g].machineID # Zero64

\* The random strings of 10 characters over 0-9a-z among those the fallback
\* may give.
TenCharStrings ==
    {s \in FallbackStrings : Len(s) = 10 /\ Range(s) \subseteq Range(CharSet)}

\* The strings a generator's machine ID may come from, as the claim has it:
\* the value of a successful lookup, a random string for a failed one.
HostnameExpected ==
    IF ~env.hostname.err /\ env.hostname.name # <<>> THEN {env.hostname.name}
    ELSE TenCharStrings

IPStrExpected == IF ~env.localIP.err THEN {env.localIP.ip} ELSE TenCharStrings

\* C15: whether the host-name lookup and the address lookup succeed or fail,
\* a NewGenerator call under way can return, and every generator returned is
\* usable (counter 0, lock free) with a machine ID in 0..15 that is the low
\* 4 bits of the hash of host name and address, a successful lookup's value
\* being used as it is and a failed one's replaced by a random string of 10
\* characters over 0-9a-z.
C15_NewGeneratorNeverFails ==
    /\ \A t \in Threads :
          threads[t].pc = "new" => ENABLED NewGenerator_Return(t, FALSE)
    /\ \A g \in 1..Len(gens) :
          /\ Less(gens[g].machineID, U64(MaxMachineID + 1))
          /\ gens[g].counter = 0 /\ gens[g].mu = 0
          /\ \E hn \in HostnameExpected, ip \in IPStrExpected :
                gens[g].machineID = Mod2To(hashToUint64(hn \o ip), 4)

\* Both lookups fail and the program holds a generator made after the
\* default one.
C15_Witness ==
    /\ env.hostname.err /\ env.localIP.err
    /\ Len(gens) > 1

\* The calls under way that were made through the package functions.
ViaPackage(t) == InCall(t) /\ threads[t].via \in {"UniqUID", "UniqID"}

\* C16: the default generator exists from the start, and UniqUID and UniqID
\* are GenerateUint64ID and GenerateStringID on it: every call through them
\* runs on the first generator, UniqUID returning a number and UniqID a
\* text, no two calls on that generator, through the package or direct,
\* obtain the same counter value, and every identifier of these calls
\* carries the default generator's machine and instance IDs.
C16_PackageUsesDefaultGenerator ==
    /\ Len(gens) >= 1
    /\ \A t \in Threads :
          ViaPackage(t) =>
              /\ threads[t].g = 1
              /\ threads[t].op = (IF threads[t].via = "UniqUID" THEN "uint64"
                                  ELSE "string")
    /\ \A r \in issued :
          r.via \in {"UniqUID", "UniqID"} =>
              /\ r.g = 1
              /\ (r.via = "UniqUID") <=> (r.op = "uint64" /\ r.text = <<>>)
              /\ (r.via = "UniqID") <=> (r.op = "string" /\ r.text # <<>>)
              /\ MachineField(r.id) = gens[1].machineID
              /\ InstanceField(r.id) = gens[1].instanceID
    /\ \A x, y \in Calls(1) : x.k # y.k => x.c # y.c

\* A call through UniqUID is at its return while a direct call on the default
\* generator is under way.
C16_Witness ==
    \E t, u \in Threads :
        /\ threads[t].via = "UniqUID" /\ threads[t].pc = "return"
        /\ threads[u].via = "method" /\ threads[u].g = 1 /\ InCall(u)

\* C17: two identifiers returned by calls on the same generator are equal
\* exactly when the timestamps sampled are congruent mod 2^42 and the
\* counter values congruent mod 2^14; so two whose counter values are less
\* than 16384 apart differ, whatever the clock did.
C17_EqualIffCongruent ==
    \A r1, r2 \in issued :
        (r1.g = r2.g /\ r1.k # r2.k) =>
            /\ (r1.id = r2.id)
                  <=> /\ Mod2To(r1.ts, 42) = Mod2To(r2.ts, 42)
                      /\ r1.c % (MaxCounter + 1) = r2.c % (MaxCounter + 1)
            /\ (r1.c - r2.c < MaxCounter + 1 /\ r2.c - r1.c < MaxCounter + 1)
                  => r1.id # r2.id

\* Two calls on a generator have returned the same identifier from different
\* clock readings.
C17_Witness ==
    \E r1, r2 \in issued :
        r1.g = r2.g /\ r1.k # r2.k /\ r1.id = r2.id /\ r1.ts # r2.ts

\* The fields of a generator.
IDGeneratorFields == {"machineID", "instanceID", "counter", "rng", "mu"}

\* C18: a backward step of the clock is neither detected nor made up for.  A
\* call that has taken its counter value can always go on to read the clock;
\* a call that reads an earlier millisecond than a call returned before on
\* the same generator packs that reading mod 2^42 and its own counter value,
\* the next of the generator; and a generator has no field for the last
\* timestamp.
C18_ClockRegressionNotDetected ==
    /\ \A t \in Threads : threads[t].pc = "time" => ENABLED ReadClock(t)
    /\ \A g \in 1..Len(gens) : DOMAIN gens[g] = IDGeneratorFields
    /\ \A t \in Threads :
          (/\ JustPacked(t)
           /\ \E r \in issued : r.g = threads[t].g /\ Less(threads[t].ts, r.ts))
              => /\ TimestampField(threads[t].id) = Mod2To(threads[t].ts, 42)
                 /\ CounterField(threads[t].id) = Mod2To(U64(threads[t].c), 14)
                 /\ threads[t].c = threads[t].k

\* A call has read a clock set back since the call began, and has built an
\* identifier the generator returned before.
C18_Witness ==
    \E t \in Threads :
        /\ JustPacked(t)
        /\ Less(threads[t].ts, threads[t].at)
        /\ \E r \in issued :
              r.g = threads[t].g /\ r.k < threads[t].k /\ r.id = threads[t].id

\* C19 as stated: the timestamp of an identifier is never later than the
\* clock reading at the moment the call's counter increment took effect.
C19_TimestampNotAfterIncrement ==
    \A t \in Threads :
        JustPacked(t) => ~Less(threads[t].at, threads[t].ts)

\* C19 as amended: the counter is advanced first and the clock read
\* afterwards, so while the clock has not been set back the timestamp of an
\* identifier is never earlier than the clock reading at the moment the
\* call's counter increment took effect.
C19_TimestampNotBeforeIncrement ==
    \A t \in Threads :
        /\ threads[t].pc = "time" => threads[t].c > 0 /\ threads[t].ts = Zero64
        /\ (JustPacked(t) /\ ~clock.regressed)
              => ~Less(threads[t].ts, threads[t].at)

\* A call has read the clock a millisecond after its counter increment.
C19_Witness ==
    \E t \in Threads :
        /\ JustPacked(t)
        /\ ~clock.regressed
        /\ threads[t].ts = Add(threads[t].at, U64(1))

\* C20: when a call on a generator begins after another call on it has
\* returned, it obtains a larger counter value than that call did.
C20_CounterFollowsRealTime ==
    [][\A t \in Threads :
          (threads[t].pc = "idle" /\ threads'[t].pc = "time")
              => \A r \in issued :
                    r.g = threads'[t].g => r.c < threads'[t].c]_vars

\* A call is under way that began after a call on the same generator had
\* returned and a loop of other calls had run.
C20_Witness ==
    \E t \in Threads, r \in issued :
        /\ InCall(t)
        /\ threads[t].g = r.g
        /\ threads[t].k > r.k + MaxCounter

\* The characters of n consecutive draws from the stream of a generator
\* seeded with seed, the first of them being draw number p (from 0).
Drawn(seed, p, n) ==
    [j \in 1..n |-> CharSet[Intn([seed |-> seed, pos |-> p + j - 1]) + 1]]

\* The goroutines inside the draw loop of generator g, lock held.
Drawing(g) ==
    {t \in Threads : threads[t].g = g /\ threads[t].pc \in {"draw", "unlock"}}

\* The suffixes generator g has completed: the lock has been released.
SuffixesDone(g) ==
    Cardinality({r \in issued : r.g = g /\ r.op = "string"})
      + Cardinality({t \in Threads : /\ threads[t].g = g
                                     /\ threads[t].op = "string"
                                     /\ threads[t].pc = "return"})

\* C21: at most one goroutine at a time draws from a generator's random
\* stream, and it holds the lock; the characters it has are consecutive
\* draws of the stream, the last of them the latest draw; every completed
\* suffix is 8 consecutive draws beginning at a multiple of 8, and the
\* stream has advanced by 8 draws per completed suffix.
C21_DrawsNeverInterleave ==
    /\ \A g \in 1..Len(gens) :
          /\ Cardinality(Drawing(g)) <= 1
          /\ \A t \in Drawing(g) :
                /\ gens[g].mu = t
                /\ Len(threads[t].suffix) = threads[t].i
                /\ gens[g].rng.pos = RandomSuffixLength * SuffixesDone(g) + threads[t].i
                /\ threads[t].suffix
                      = Drawn(gens[g].rng.seed, gens[g].rng.pos - threads[t].i,
                              threads[t].i)
          /\ Drawing(g) = {} =>
                gens[g].rng.pos = RandomSuffixLength * SuffixesDone(g)
    /\ \A r \in issued :
          r.op = "string" =>
              \E m \in 0..(gens[r.g].rng.pos \div RandomSuffixLength) :
                  SubSeq(r.text, Len(r.text) - RandomSuffixLength + 1, Len(r.text))
                      = Drawn(gens[r.g].rng.seed, RandomSuffixLength * m,
                              RandomSuffixLength)

\* A goroutine is in the middle of its draws while another, in a call on the
\* same generator, waits for the lock.
C21_Witness ==
    \E t1, t2 \in Threads :
        /\ threads[t1].pc = "draw"
        /\ threads[t1].i > 0
        /\ threads[t2].pc = "lock"
        /\ threads[t2].g = threads[t1].g

\* C22 as stated: a goroutine inside a generation operation never has to
\* wait for another goroutine before it can take its next step.
C22_NeverWaits ==
    \A t \in Threads : InCall(t) => ENABLED CallStep(t)

\* C22 as amended: a goroutine inside GenerateUint64ID or UniqUID never has
\* to wait; one inside GenerateStringID or UniqID waits in one place only,
\* at the lock of its generator's random stream, and only while another
\* goroutine inside the draw loop of the same generator holds the lock.
C22_WaitsOnlyForTheLock ==
    \A t \in Threads :
        InCall(t) =>
            \/ ENABLED CallStep(t)
            \/ /\ threads[t].op = "string"
               /\ threads[t].pc = "lock"
               /\ \E u \in Drawing(threads[t].g) :
                     u # t /\ gens[threads[t].g].mu = u

\* A call of UniqID waits for the lock while another call on the default
\* generator is inside the draw loop.
C22_Witness ==
    \E t \in Threads :
        /\ threads[t].via = "UniqID"
        /\ threads[t].pc = "lock"
        /\ ~ ENABLED CallStep(t)

\* The locks goroutine t holds.
Held(t) == {g \in 1..Len(gens) : gens[g].mu = t}

\* C23: under weak fairness every started GenerateStringID call returns, and
\* in every state: a goroutine that holds a lock is inside the draw loop of
\* that generator, with fewer than 8 draws made before the release and
\* exactly 8 at it; no goroutine holds two locks or holds one on return;
\* while calls are under way one of them can step; and a goroutine at a
\* lock whose generator no other call is on can take it.
C23_StringCallsReturn ==
    /\ [](/\ \A t \in Threads :
                /\ Cardinality(Held(t)) <= 1
                /\ Held(t) # {} <=> threads[t].pc \in {"draw", "unlock"}
                /\ Held(t) # {} => Held(t) = {threads[t].g}
                /\ threads[t].pc = "draw" => threads[t].i < RandomSuffixLength
                /\ threads[t].pc = "unlock" => threads[t].i = RandomSuffixLength
                /\ threads[t].pc = "return" /\ threads[t].op = "string"
                      => Len(threads[t].suffix) = RandomSuffixLength
                /\ (/\ threads[t].pc = "lock"
                    /\ \A u \in Threads \ {t} :
                          InCall(u) => threads[u].g # threads[t].g)
                      => ENABLED Lock(t)
          /\ (\E t \in Threads : InCall(t))
                => \E t \in Threads : ENABLED CallStep(t))
    /\ \A t \in Threads :
          (InCall(t) /\ threads[t].op = "string") ~> (threads[t].pc = "idle")

\* A goroutine waits at a lock that another, its 8 draws made, is about to
\* release, while the lock of the other generator is free.
C23_Witness ==
    \E t, u \in Threads :
        /\ threads[t].pc = "lock"
        /\ ~ ENABLED CallStep(t)
        /\ threads[u].pc = "unlock"
        /\ threads[u].g = threads[t].g
        /\ \E g \in 1..Len(gens) : g # threads[t].g /\ gens[g].mu = 0

\* The top 8 bits of an identifier: the machine and instance fields.
TopByte(id) == Shr(id, InstanceIDShift)

\* The top 8 bits the identifiers of generator gen carry.
Discriminators(gen) ==
    Add(TimesPow2(gen.machineID, MachineIDShift - InstanceIDShift), gen.instanceID)

\* C24: no step of a generation call or of NewGenerator, by any goroutine on
\* any generator, changes the machine ID or the instance ID of a generator
\* the program holds; and the top 8 bits of every identifier a generator has
\* returned, and of the number the hexadecimal part of every text parses to,
\* are the generator's two IDs.
C24_DiscriminatorsFixed ==
    /\ [][\A g \in 1..Len(gens) :
             /\ g \in 1..Len(gens')
             /\ gens'[g].machineID = gens[g].machineID
             /\ gens'[g].instanceID = gens[g].instanceID]_vars
    /\ [](\A r \in issued :
             /\ TopByte(r.id) = Discriminators(gens[r.g])
             /\ r.op = "string"
                   => TopByte(ParseUint16(HexPart(r.text))) = Discriminators(gens[r.g]))

\* In a process that holds two generators, the default one has returned an
\* identifier and built its next while a NewGenerator call is under way.
C24_Witness ==
    /\ Len(gens) > 1
    /\ \E u \in Threads : threads[u].pc = "new"
    /\ \E r \in issued, t \in Threads :
          /\ r.g = Generator
          /\ threads[t].g = Generator
          /\ JustPacked(t)
          /\ threads[t].k > r.k
          /\ TopByte(threads[t].id) = TopByte(r.id)

\* C25: the step with which a goroutine begins GenerateUint64ID adds 1 to
\* the counter of the generator called and changes no other field of any
\* generator; the later steps of the call change no generator; none of them
\* changes the process-wide counter.  The step with which NewGenerator
\* begins adds 1 to the process-wide counter and changes no generator, and
\* its return changes neither that counter nor a generator already held.
C25_FrameEffects ==
    [][\A t \in Threads :
          /\ (threads[t].pc = "idle" /\ threads'[t].pc = "time")
                => /\ gens' = [gens EXCEPT ![threads'[t].g].counter = @ + 1]
                   /\ globalInstanceCounter' = globalInstanceCounter
          /\ (/\ threads[t].pc = "time" \/ AtReturn(t)
              /\ threads'[t] # threads[t])
                => /\ gens' = gens
                   /\ globalInstanceCounter' = globalInstanceCounter
          /\ (threads[t].pc = "idle" /\ threads'[t].pc = "new")
                => /\ gens' = gens
                   /\ globalInstanceCounter' = globalInstanceCounter + 1
          /\ (threads[t].pc = "new" /\ threads'[t].pc = "idle")
                => /\ SubSeq(gens', 1, Len(gens)) = gens
                   /\ globalInstanceCounter' = globalInstanceCounter]_vars

\* GenerateUint64ID is about to return on one generator while a goroutine
\* holds the lock of another and has drawn from its stream, NewGenerator
\* having been called since package initialisation.
C25_Witness ==
    \E t, u \in Threads :
        /\ AtReturn(t)
        /\ threads[u].pc = "draw"
        /\ threads[u].i > 0
        /\ threads[u].g # threads[t].g
        /\ globalInstanceCounter > 1

\* C26: the stored counter of a generator is the number of generation calls
\* begun on it since it was created, and the identifier of the k-th call
\* carries sequence field k mod 16384: 1 for the first, 16383 for the
\* 16383rd, 0 for the 16384th.
C26_SequenceIsCallNumberMod16384 ==
    /\ \A g \in 1..Len(gens) : gens[g].counter = begun[g]
    /\ \A r \in issued :
          /\ ToNat(CounterField(r.id)) = r.k % (MaxCounter + 1)
          /\ r.k = 1 => CounterField(r.id) = U64(1)
          /\ r.k = MaxCounter => CounterField(r.id) = U64(MaxCounter)
          /\ r.k = MaxCounter + 1 => CounterField(r.id) = Zero64
          /\ gens[r.g].counter >= r.k

\* The first call on a generator has returned sequence 1 and the 16384th
\* sequence 0, the stored counter being 16384.
C26_Witness ==
    \E r1, r2 \in issued :
        /\ r1.g = r2.g
        /\ r1.k = 1 /\ CounterField(r1.id) = U64(1)
        /\ r2.k = MaxCounter + 1 /\ CounterField(r2.id) = Zero64
        /\ gens[r1.g].counter = MaxCounter + 1

\* C27: the k-th NewGenerator call of the process, package initialisation's
\* being the first, obtains counter value k and instance ID k mod 16: the
\* default generator has 1, the 16th generator 0, the 17th 1 again, and two
\* generators have the same instance ID exactly when their ordinals are
\* congruent mod 16.
C27_InstanceIDIsOrdinalMod16 ==
    /\ gens[Generator].instanceID = U64(1)
    /\ \A a \in 1..Len(created) :
          /\ created[a].n = a
          /\ created[a].instanceID = a % (MaxInstanceID + 1)
          /\ a = MaxInstanceID + 1 => created[a].instanceID = 0
          /\ a = MaxInstanceID + 2
                => created[a].instanceID = ToNat(gens[Generator].instanceID)
          /\ \A b \in (a + 1)..Len(created) :
                created[a].instanceID = created[b].instanceID
                    <=> a % (MaxInstanceID + 1) = b % (MaxInstanceID + 1)
    /\ \A t \in Threads :
          threads[t].pc = "new" =>
              \E a \in 1..Len(created) :
                  ToNat(threads[t].id) = a % (MaxInstanceID + 1)

\* The 17th NewGenerator call of the process is under way and has derived
\* the instance ID of the default generator.
C27_Witness ==
    /\ Len(created) = MaxInstanceID + 2
    /\ \E t \in Threads :
          /\ threads[t].pc = "new"
          /\ threads[t].id = gens[Generator].instanceID

\* Both lookups of generateMachineID succeed in environment e.
LookupsSucceed(e) ==
    /\ ~e.hostname.err
    /\ e.hostname.name # <<>>
    /\ ~e.localIP.err

\* C28: where both lookups succeed, generateMachineID has one possible
\* value, and every generator of the process has the machine ID that value
\* gives, whatever its seed and instance ID and whenever it was created; a
\* NewGenerator call under way can return no other.
C28_MachineIDDeterministic ==
    LookupsSucceed(env) =>
        /\ Cardinality(generateMachineID(env)) = 1
        /\ \A g \in 1..Len(gens) :
              \A h \in generateMachineID(env) : gens[g].machineID = MachineIDOf(h)
        /\ \A g1, g2 \in 1..Len(gens) : gens[g1].machineID = gens[g2].machineID

\* Where both lookups succeed, the process holds two generators with
\* different seeds and different instance IDs.
C28_Witness ==
    /\ LookupsSucceed(env)
    /\ Len(gens) = 2
    /\ gens[1].rng.seed # gens[2].rng.seed
    /\ gens[1].instanceID # gens[2].instanceID
    /\ gens[1].machineID = gens[2].machineID

\* 2^42 and 2^14: the first values that do not fit the timestamp field and
\* the sequence field.
TimestampLimit == Add(MaxTimestamp, U64(1))
CounterLimit == MaxCounter + 1

\* C29: an identifier built from a clock reading of 2^42 or more carries the
\* reading mod 2^42 in its timestamp field and its generator's own instance
\* and machine IDs above it; one built from a counter value of 2^14 or more
\* carries the value mod 2^14 in its sequence field and the clock reading
\* mod 2^42 in its timestamp field; and the call returns it.
C29_OverflowTruncated ==
    /\ \A t \in Threads :
          threads[t].pc = "return" => ENABLED Return(t)
    /\ \A r \in issued :
          /\ ~Less(r.ts, TimestampLimit)
                => /\ TimestampField(r.id) = Mod2To(r.ts, 42)
                   /\ InstanceField(r.id) = gens[r.g].instanceID
                   /\ MachineField(r.id) = gens[r.g].machineID
          /\ r.c >= CounterLimit
                => /\ ToNat(CounterField(r.id)) = r.c % CounterLimit
                   /\ TimestampField(r.id) = Mod2To(r.ts, 42)

\* A call has returned an identifier built from a clock reading above 2^42
\* and a counter value above 2^14.
C29_Witness ==
    \E r \in issued :
        /\ ~Less(r.ts, TimestampLimit)
        /\ r.c >= CounterLimit
        /\ TimestampField(r.id) # r.ts
        /\ ToNat(CounterField(r.id)) # r.c

\* An interface getLocalIP looks into, and an address it accepts.
Usable(iface) == iface.up /\ ~iface.loopback /\ ~iface.addrsErr
Qualifies(addr) ==
    /\ ~addr.ip.isNil
    /\ ~IsLoopback(addr.ip)
    /\ ~To4(addr.ip).isNil

\* The places <<interface, address>> of the qualifying addresses of a host.
Candidates(host) ==
    {p \in (1..Len(host.interfaces)) \X (1..MaxAddrs) :
        /\ Usable(host.interfaces[p[1]])
        /\ p[2] <= Len(host.interfaces[p[1]].addrs)
        /\ Qualifies(host.interfaces[p[1]].addrs[p[2]])}

\* The first of a set of places, in interface order and then address order.
FirstPlace(c) ==
    CHOOSE p \in c :
        \A q \in c : p[1] < q[1] \/ (p[1] = q[1] /\ p[2] <= q[2])

\* C30: getLocalIP returns an error exactly when the interface listing
\* fails or no address of an interface that is up, not loopback and lists
\* its addresses qualifies (non-nil, not loopback, with an IPv4 form); else
\* it returns the IPv4 form of the first qualifying address, in interface
\* order and then address order; what it returns without an error is never
\* nil, loopback or other than a 4-byte address.
C30_GetLocalIPReturnsFirst ==
    net.pc = "done" =>
        LET c == IF net.host.err THEN {} ELSE Candidates(net.host)
        IN  /\ net.err <=> (net.host.err \/ c = {})
            /\ net.err => net.ip.isNil
            /\ ~net.err =>
                  /\ net.ip = To4(net.host.interfaces[FirstPlace(c)[1]]
                                     .addrs[FirstPlace(c)[2]].ip)
                  /\ ~net.ip.isNil
                  /\ ~IsLoopback(net.ip)
                  /\ Len(net.ip.bytes) = 4
                  /\ env.localIP = [ip |-> IPString(net.ip), err |-> FALSE]

\* getLocalIP has passed an interface whose addresses could not be listed
\* and has returned the first of the two qualifying addresses of the second
\* interface.
C30_Witness ==
    /\ net.pc = "done"
    /\ ~net.err
    /\ Len(net.host.interfaces) = 2
    /\ net.host.interfaces[1].up
    /\ ~net.host.interfaces[1].loopback
    /\ net.host.interfaces[1].addrsErr
    /\ Candidates(net.host) = {<<2, 1>>, <<2, 2>>}
    /\ net.host.interfaces[2].addrs[1].ip = HomeNetIP
    /\ net.host.interfaces[2].addrs[2].ip = TenNetIP
    /\ net.ip = HomeNetIP

\* The IPv4 addresses in either form, written out: 4 bytes, or 16 bytes of
\* which the first 10 are 0 and the next two 255.
HasIPv4Form(ip) ==
    \/ Len(ip.bytes) = 4
    \/ /\ Len(ip.bytes) = 16
       /\ SubSeq(ip.bytes, 1, 12) = <<0, 0, 0, 0, 0, 0, 0, 0, 0, 0, 255, 255>>

\* The last 4 bytes of an address that has an IPv4 form.
IPv4Form(ip) == IP(SubSeq(ip.bytes, Len(ip.bytes) - 3, Len(ip.bytes)))

\* C31: extractIPFromAddr returns nil for an address whose type is neither
\* *net.IPNet nor *net.IPAddr, for a nil IP, for a loopback IP and for an IP
\* with no IPv4 form; in every other case it returns the IPv4 form of the
\* address, which is not nil and not loopback.
C31_ExtractIPFromAddr ==
    net.pc = "extracted" =>
        LET a == net.addr
            rejected ==
                \/ a.type \notin {"IPNet", "IPAddr"}
                \/ a.ip.isNil
                \/ ~HasIPv4Form(a.ip)
                \/ IPv4Form(a.ip).bytes[1] = 127
                \/ a.ip = IPv6loopback
        IN  /\ rejected => net.ip = NilIP
            /\ ~rejected =>
                  /\ net.ip = IPv4Form(a.ip)
                  /\ ~net.ip.isNil
                  /\ Len(net.ip.bytes) = 4
                  /\ ~IsLoopback(net.ip)

\* extractIPFromAddr has returned the 4-byte form of 192.0.0.1 for a
\* *net.IPAddr that holds it in the 16-byte form.
C31_Witness ==
    /\ net.pc = "extracted"
    /\ net.addr = [type |-> "IPAddr", ip |-> To16(IP(<<192, 0, 0, 1>>))]
    /\ net.ip = IP(<<192, 0, 0, 1>>)

====
